---- MODULE Spec2Model ----
(***************************************************************************)
(* Verification model of the Rcpp vector utilities under src/cpp and       *)
(* src/extras/cpp.  Every exported function is a one-shot call: the state  *)
(* is the frame of the call in progress.                                   *)
(*   fn   the function being executed                                      *)
(*   arg  its arguments (a record, fields named as the C++ parameters)     *)
(*   loc  its local variables (a record, fields named as the C++ locals;   *)
(*        iterators are 0-based offsets from begin())                      *)
(*   pc   position in the function: "entry", a loop label, "done",         *)
(*        "error" (a C++ exception turned into an R error) or "crashed"    *)
(*        (abnormal termination after an out-of-bounds access)             *)
(*   ret  the returned value once pc = "done"                              *)
(***************************************************************************)
EXTENDS Integers, Sequences, FiniteSets, TLC

VARIABLES fn, arg, loc, pc, ret

vars == <<fn, arg, loc, pc, ret>>

(***************************************************************************)
(* Bounds of the explored inputs.                                          *)
(***************************************************************************)
MaxLen == 3
MaxVal == 2
MaxOOB == 2

SeqsUpTo(S, n) == UNION {[1..k -> S] : k \in 0..n}

NoRet == [none |-> TRUE]

(***************************************************************************)
(* Doubles.  A double is a finite number, an infinity or the missing       *)
(* marker NA_REAL; every comparison involving NA_REAL is false.            *)
(***************************************************************************)
D(v) == [k |-> "num", v |-> v]
NA_REAL == [k |-> "na", v |-> 0]
R_PosInf == [k |-> "inf", v |-> 1]
R_NegInf == [k |-> "inf", v |-> -1]

R_IsNA(a) == a.k = "na"

DLt(a, b) ==
  IF a.k = "na" \/ b.k = "na" THEN FALSE
  ELSE IF a.k = "inf" THEN a.v = -1 /\ ~(b.k = "inf" /\ b.v = -1)
  ELSE IF b.k = "inf" THEN b.v = 1
  ELSE a.v < b.v

DGt(a, b) == DLt(b, a)

DEq(a, b) ==
  IF a.k = "na" \/ b.k = "na" THEN FALSE ELSE a = b

FiniteVals == {D(v) : v \in 0..MaxVal}
DoubleVals == FiniteVals \cup {NA_REAL, R_PosInf, R_NegInf}

(***************************************************************************)
(* rle2: src/cpp/rle.cpp                                                   *)
(***************************************************************************)
RleVals == FiniteVals \cup {NA_REAL}

\* *it for an iterator at 0-based offset it: the element when in bounds,
\* any double when the offset is outside the vector.
RleDeref(x, it) == IF it < Len(x) THEN {x[it + 1]} ELSE RleVals

RleCall ==
  /\ fn = "rle2"
  /\ arg \in [x : SeqsUpTo(RleVals, MaxLen)]
  /\ loc = [lengths |-> <<>>, values |-> <<>>, i |-> 0, prev |-> D(0), it |-> 0, oob |-> 0]
  /\ pc = "entry"
  /\ ret = NoRet

RleEntry ==
  /\ fn = "rle2" /\ pc = "entry"
  /\ \E v \in RleDeref(arg.x, 0) :
       loc' = [loc EXCEPT !.i = 0, !.prev = v, !.values = <<v>>,
                          !.lengths = <<1>>, !.it = 1,
                          !.oob = IF Len(arg.x) = 0 THEN 1 ELSE 0]
  /\ pc' = "loop"
  /\ UNCHANGED <<fn, arg, ret>>

RleBody(l, v) ==
  IF DEq(l.prev, v)
    THEN [l EXCEPT !.lengths[l.i + 1] = @ + 1, !.it = @ + 1]
    ELSE [l EXCEPT !.values = Append(@, v), !.lengths = Append(@, 1),
                   !.i = @ + 1, !.prev = v, !.it = @ + 1]

RleLoop ==
  /\ fn = "rle2" /\ pc = "loop"
  /\ loc.it # Len(arg.x)
  /\ loc.it < Len(arg.x) \/ loc.oob < MaxOOB
  /\ \E v \in RleDeref(arg.x, loc.it) :
       loc' = [RleBody(loc, v) EXCEPT
                 !.oob = IF loc.it < Len(arg.x) THEN @ ELSE @ + 1]
  /\ UNCHANGED <<fn, arg, pc, ret>>

\* The iterator has left the vector: the read faults (or memory runs out).
RleCrash ==
  /\ fn = "rle2" /\ pc = "loop"
  /\ loc.it > Len(arg.x)
  /\ pc' = "crashed"
  /\ UNCHANGED <<fn, arg, loc, ret>>

RleReturn ==
  /\ fn = "rle2" /\ pc = "loop"
  /\ loc.it = Len(arg.x)
  /\ ret' = [lengths |-> loc.lengths, values |-> loc.values]
  /\ pc' = "done"
  /\ UNCHANGED <<fn, arg, loc>>

NextRle == RleEntry \/ RleLoop \/ RleCrash \/ RleReturn

SpecRle == RleCall /\ [][NextRle]_vars

RECURSIVE Rep(_, _)
Rep(v, n) == IF n <= 0 THEN <<>> ELSE <<v>> \o Rep(v, n - 1)

RECURSIVE Inverse_rle(_, _)
Inverse_rle(values, lengths) ==
  IF values = <<>> THEN <<>>
  ELSE Rep(Head(values), Head(lengths)) \o Inverse_rle(Tail(values), Tail(lengths))

\* C1: rle2 returns for every input x, the empty one included, an encoding
\* whose expansion is x; the encoding of the empty sequence is empty and the
\* encoding of a one-element sequence is one pair of length 1.
C1_RoundTrip ==
  fn = "rle2" =>
    /\ pc # "crashed"
    /\ pc = "loop" /\ arg.x = <<>> => loc.values = <<>>
    /\ pc = "done" =>
         /\ Len(ret.values) = Len(ret.lengths)
         /\ Inverse_rle(ret.values, ret.lengths) = arg.x
         /\ arg.x = <<>> => ret.values = <<>> /\ ret.lengths = <<>>
         /\ Len(arg.x) = 1 => ret.values = arg.x /\ ret.lengths = <<1>>

\* The same property for the inputs that hold at least one element.
RleNonEmptyRoundTrip ==
  fn = "rle2" /\ arg.x # <<>> =>
    /\ pc # "crashed"
    /\ pc = "done" => Inverse_rle(ret.values, ret.lengths) = arg.x

(***************************************************************************)
(* duplicated: src/cpp/duplicated.cpp and src/extras/cpp/duplicated.cpp    *)
(* The seven set-based variants share one loop body; they differ in the    *)
(* container (std::set or unordered_set) and in how the loop is indexed.   *)
(***************************************************************************)
DupFns == {"cpp/duplicated2", "cpp/duplicated3", "cpp/duplicated3a",
           "cpp/duplicated4", "extras/duplicated1", "extras/duplicated2",
           "extras/duplicated3"}

IntVals == 0..MaxVal

\* std::set<int>::insert and unordered_set<int>::insert: the set after the
\* insertion and whether the value was newly inserted.
SetInsert(seen, v) == [set |-> seen \cup {v}, second |-> v \notin seen]

DuplicatedCall ==
  /\ fn \in DupFns
  /\ arg \in [x : SeqsUpTo(IntVals, MaxLen)]
  /\ loc = [seen |-> {}, out |-> <<>>, it |-> 0]
  /\ pc = "entry"
  /\ ret = NoRet

\* LogicalVector out(x.size()): all FALSE.
DuplicatedEntry ==
  /\ fn \in DupFns /\ pc = "entry"
  /\ loc' = [seen |-> {}, out |-> [k \in 1..Len(arg.x) |-> FALSE], it |-> 0]
  /\ pc' = "loop"
  /\ UNCHANGED <<fn, arg, ret>>

DuplicatedLoop ==
  /\ fn \in DupFns /\ pc = "loop"
  /\ loc.it # Len(arg.x)
  /\ LET r == SetInsert(loc.seen, arg.x[loc.it + 1])
     IN loc' = [seen |-> r.set,
                out |-> [loc.out EXCEPT ![loc.it + 1] = r.second],
                it |-> loc.it + 1]
  /\ UNCHANGED <<fn, arg, pc, ret>>

DuplicatedReturn ==
  /\ fn \in DupFns /\ pc = "loop"
  /\ loc.it = Len(arg.x)
  /\ ret' = loc.out
  /\ pc' = "done"
  /\ UNCHANGED <<fn, arg, loc>>

NextDuplicated == DuplicatedEntry \/ DuplicatedLoop \/ DuplicatedReturn

SpecDuplicated == DuplicatedCall /\ [][NextDuplicated]_vars

\* C2: every set-based duplicated variant returns, at each position, FALSE
\* when the value has not occurred at an earlier position and TRUE when it
\* has; out[0] is FALSE for every non-empty x.
C2_Duplicated ==
  fn \in DupFns /\ pc = "done" =>
    /\ Len(ret) = Len(arg.x)
    /\ \A k \in 1..Len(arg.x) :
         ret[k] = (\E j \in 1..(k - 1) : arg.x[j] = arg.x[k])

(***************************************************************************)
(* findInterval2, findInterval3: src/cpp/find-interval.cpp                 *)
(***************************************************************************)
FindFns == {"findInterval2", "findInterval3"}

IsSorted(b) == \A k \in 1..(Len(b) - 1) : ~DLt(b[k + 1], b[k])

\* Breakpoints are finite and ascending (the precondition of the search).
BreakSeqs == {b \in SeqsUpTo(FiniteVals, MaxLen) : IsSorted(b)}

\* std::upper_bound(first, last, val) on 0-based offsets: bisection for the
\* first position whose element is greater than val.
RECURSIVE upper_bound(_, _, _, _)
upper_bound(breaks, first, len, val) ==
  IF len <= 0 THEN first
  ELSE LET half == len \div 2
           mid == first + half
       IN IF DLt(val, breaks[mid + 1])
            THEN upper_bound(breaks, first, half, val)
            ELSE upper_bound(breaks, mid + 1, len - half - 1, val)

\* std::distance(first, last) for random-access iterators: last - first.
distance(first, last) == last - first

FindIntervalCall ==
  /\ fn \in FindFns
  /\ arg \in [x : SeqsUpTo(FiniteVals, MaxLen), breaks : BreakSeqs]
  /\ loc = [out |-> <<>>, it |-> 0]
  /\ pc = "entry"
  /\ ret = NoRet

FindIntervalEntry ==
  /\ fn \in FindFns /\ pc = "entry"
  /\ loc' = [out |-> [k \in 1..Len(arg.x) |-> 0], it |-> 0]
  /\ pc' = "loop"
  /\ UNCHANGED <<fn, arg, ret>>

FindIntervalLoop ==
  /\ fn \in FindFns /\ pc = "loop"
  /\ loc.it # Len(arg.x)
  /\ LET ubound == upper_bound(arg.breaks, 0, Len(arg.breaks), arg.x[loc.it + 1])
     IN loc' = [out |-> [loc.out EXCEPT ![loc.it + 1] = distance(ubound, 0)],
                it |-> loc.it + 1]
  /\ UNCHANGED <<fn, arg, pc, ret>>

FindIntervalReturn ==
  /\ fn \in FindFns /\ pc = "loop"
  /\ loc.it = Len(arg.x)
  /\ ret' = loc.out
  /\ pc' = "done"
  /\ UNCHANGED <<fn, arg, loc>>

NextFindInterval == FindIntervalEntry \/ FindIntervalLoop \/ FindIntervalReturn

SpecFindInterval == FindIntervalCall /\ [][NextFindInterval]_vars

CountGreater(b, v) == Cardinality({k \in 1..Len(b) : DLt(v, b[k])})

\* C3: for ascending breakpoints, findInterval2 and findInterval3 return for
\* each query value the number of breakpoints strictly greater than it, a
\* number between 0 and the number of breakpoints.
C3_CountGreater ==
  fn \in FindFns /\ pc = "done" =>
    /\ Len(ret) = Len(arg.x)
    /\ \A k \in 1..Len(arg.x) :
         /\ ret[k] = CountGreater(arg.breaks, arg.x[k])
         /\ ret[k] \in 0..Len(arg.breaks)

\* What the loop stores instead: minus the number of breakpoints that are
\* not greater than the query value.
FindIntervalStored ==
  fn \in FindFns /\ pc = "done" =>
    \A k \in 1..Len(arg.x) :
      ret[k] = 0 - (Len(arg.breaks) - CountGreater(arg.breaks, arg.x[k]))

(***************************************************************************)
(* var1, var2: src/extras/cpp/var.cpp                                      *)
(* The arithmetic is exact: a finite double is a fraction <<num, den>> in  *)
(* lowest terms with den > 0.  The sign of a zero is not tracked.          *)
(***************************************************************************)
VarFns == {"var1", "var2"}

RECURSIVE GCD(_, _)
GCD(a, b) == IF b = 0 THEN a ELSE GCD(b, a % b)

Abs(a) == IF a < 0 THEN 0 - a ELSE a

Q(n, d) ==
  LET s == IF d < 0 THEN 0 - 1 ELSE 1
      g == GCD(Abs(n), Abs(d))
  IN <<(s * n) \div g, (s * d) \div g>>

QInt(n) == <<n, 1>>
QAdd(a, b) == Q(a[1] * b[2] + b[1] * a[2], a[2] * b[2])
QSub(a, b) == Q(a[1] * b[2] - b[1] * a[2], a[2] * b[2])
QMul(a, b) == Q(a[1] * b[1], a[2] * b[2])
QDivInt(a, k) == Q(a[1], a[2] * k)

\* double / int as IEEE-754 does it: 0/0 is NaN, nonzero/0 is an infinity.
DDivInt(a, k) ==
  IF k = 0
    THEN IF a[1] = 0 THEN [k |-> "nan", q |-> QInt(0)]
         ELSE [k |-> "inf", q |-> QInt(IF a[1] > 0 THEN 1 ELSE 0 - 1)]
    ELSE [k |-> "num", q |-> QDivInt(a, k)]

VarVals == (0 - 1)..MaxVal

\* The sequence of the spec's example.
WelfordExample == <<2, 4, 4, 4, 5, 5, 7, 9>>

VarInputs == SeqsUpTo(VarVals, MaxLen) \cup {WelfordExample}

WelfordDelta(xi, mu) == QSub(QInt(xi), mu)

WelfordMu(mu, delta, i) == QAdd(mu, QDivInt(delta, i + 1))

WelfordM2_OldMean(m2, delta, xi, mu) == QAdd(m2, QMul(delta, delta))

WelfordM2(m2, delta, xi, mu) == QAdd(m2, QMul(delta, QSub(QInt(xi), mu)))

VarCall ==
  /\ fn \in VarFns
  /\ arg \in [x : VarInputs]
  /\ loc = [mu |-> QInt(0), m2 |-> QInt(0), n |-> 0, i |-> 0]
  /\ pc = "entry"
  /\ ret = NoRet

VarEntry ==
  /\ fn \in VarFns /\ pc = "entry"
  /\ loc' = [mu |-> QInt(0), m2 |-> QInt(0), n |-> Len(arg.x), i |-> 0]
  /\ pc' = "loop"
  /\ UNCHANGED <<fn, arg, ret>>

VarLoop ==
  /\ fn \in VarFns /\ pc = "loop"
  /\ loc.i < loc.n
  /\ LET xi == arg.x[loc.i + 1]
         delta == WelfordDelta(xi, loc.mu)
         mu == WelfordMu(loc.mu, delta, loc.i)
         m2 == WelfordM2(loc.m2, delta, xi, mu)
     IN loc' = [loc EXCEPT !.mu = mu, !.m2 = m2, !.i = @ + 1]
  /\ UNCHANGED <<fn, arg, pc, ret>>

VarReturn ==
  /\ fn \in VarFns /\ pc = "loop"
  /\ ~(loc.i < loc.n)
  /\ ret' = DDivInt(loc.m2, loc.n - 1)
  /\ pc' = "done"
  /\ UNCHANGED <<fn, arg, loc>>

NextVar == VarEntry \/ VarLoop \/ VarReturn

SpecVar == VarCall /\ [][NextVar]_vars

\* C4: variance of a sequence of length 0 or 1 is never an ordinary number:
\* the call fails or returns NaN.
C4_ShortInputFails ==
  fn \in VarFns /\ Len(arg.x) < 2 =>
    /\ pc \in {"entry", "loop", "done", "error"}
    /\ pc = "done" => ret.k = "nan"

\* The part that the code does satisfy: length 1 gives NaN.
VarLengthOneNaN ==
  fn \in VarFns /\ Len(arg.x) = 1 /\ pc = "done" => ret.k = "nan"

\* Two-pass reference: the mean of the first k elements and the sum of their
\* squared deviations from it.
RECURSIVE SumTo(_, _)
SumTo(x, k) == IF k = 0 THEN 0 ELSE x[k] + SumTo(x, k - 1)

MeanTo(x, k) == Q(SumTo(x, k), k)

RECURSIVE SumSqDevTo(_, _, _)
SumSqDevTo(x, k, mean) ==
  IF k = 0 THEN QInt(0)
  ELSE QAdd(SumSqDevTo(x, k - 1, mean),
            QMul(QSub(QInt(x[k]), mean), QSub(QInt(x[k]), mean)))

TwoPassVar(x) == QDivInt(SumSqDevTo(x, Len(x), MeanTo(x, Len(x))), Len(x) - 1)

\* C5: after the first k >= 1 elements mu is their mean and m2 the sum of
\* their squared deviations from it; for n >= 2 the result m2 / (n - 1) is
\* the two-pass sample variance, 32/7 on the example.
C5_Welford ==
  fn \in VarFns =>
    /\ pc = "loop" /\ loc.i >= 1 =>
         /\ loc.mu = MeanTo(arg.x, loc.i)
         /\ loc.m2 = SumSqDevTo(arg.x, loc.i, MeanTo(arg.x, loc.i))
    /\ pc = "done" /\ Len(arg.x) >= 2 =>
         /\ ret.k = "num"
         /\ ret.q = TwoPassVar(arg.x)
         /\ arg.x = WelfordExample => ret.q = <<32, 7>>

C5_Witness ==
  /\ fn \in VarFns /\ pc = "done"
  /\ arg.x = WelfordExample
  /\ ret = [k |-> "num", q |-> <<32, 7>>]

(***************************************************************************)
(* range2, range3, range3a, range: src/cpp/range.cpp                       *)
(* loc.out is the pair (out[0], out[1]), respectively (min, max) of        *)
(* MyRange; loc.i is the 0-based scan position.                            *)
(***************************************************************************)
RangeFns == {"range2", "range3", "range3a"}

\* if (!na_rm && R_IsNA(x[i]))
RangeNACheck_FlagInverted(na_rm, v) == na_rm /\ R_IsNA(v)

RangeNACheck(na_rm, v) == ~na_rm /\ R_IsNA(v)

\* if (x[i] < out[0]) out[0] = x[i];  if (x[i] > out[1]) out[1] = x[i];
RangeUpdate_ElseIf(out, v) ==
  IF DLt(v, out[1]) THEN <<v, out[2]>>
  ELSE IF DGt(v, out[2]) THEN <<out[1], v>> ELSE out

RangeUpdate(out, v) ==
  <<IF DLt(v, out[1]) THEN v ELSE out[1], IF DGt(v, out[2]) THEN v ELSE out[2]>>

RangeCall ==
  /\ \/ fn \in RangeFns /\ arg \in [x : SeqsUpTo(DoubleVals, MaxLen), na_rm : BOOLEAN]
     \/ fn = "range" /\ arg \in [x : SeqsUpTo(DoubleVals, MaxLen)]
  /\ loc = [out |-> <<D(0), D(0)>>, n |-> 0, i |-> 0]
  /\ pc = "entry"
  /\ ret = NoRet

RangeEntry ==
  /\ fn \in RangeFns \cup {"range"} /\ pc = "entry"
  /\ loc' = [out |-> <<R_PosInf, R_NegInf>>, n |-> Len(arg.x), i |-> 0]
  /\ pc' = "loop"
  /\ UNCHANGED <<fn, arg, ret>>

RangeShortCircuit ==
  /\ fn \in RangeFns /\ pc = "loop"
  /\ loc.i < loc.n
  /\ RangeNACheck(arg.na_rm, arg.x[loc.i + 1])
  /\ loc' = [loc EXCEPT !.out = <<NA_REAL, NA_REAL>>]
  /\ ret' = <<NA_REAL, NA_REAL>>
  /\ pc' = "done"
  /\ UNCHANGED <<fn, arg>>

RangeLoop ==
  /\ fn \in RangeFns /\ pc = "loop"
  /\ loc.i < loc.n
  /\ ~RangeNACheck(arg.na_rm, arg.x[loc.i + 1])
  /\ loc' = [loc EXCEPT !.out = RangeUpdate(loc.out, arg.x[loc.i + 1]), !.i = @ + 1]
  /\ UNCHANGED <<fn, arg, pc, ret>>

\* MyRange range(NumericVector x): a missing element is skipped.
MyRangeLoop ==
  /\ fn = "range" /\ pc = "loop"
  /\ loc.i < loc.n
  /\ loc' = IF R_IsNA(arg.x[loc.i + 1])
              THEN [loc EXCEPT !.i = @ + 1]
              ELSE [loc EXCEPT !.out = RangeUpdate(loc.out, arg.x[loc.i + 1]),
                               !.i = @ + 1]
  /\ UNCHANGED <<fn, arg, pc, ret>>

RangeReturn ==
  /\ fn \in RangeFns \cup {"range"} /\ pc = "loop"
  /\ ~(loc.i < loc.n)
  /\ ret' = loc.out
  /\ pc' = "done"
  /\ UNCHANGED <<fn, arg, loc>>

NextRange ==
  RangeEntry \/ RangeShortCircuit \/ RangeLoop \/ MyRangeLoop \/ RangeReturn

SpecRange == RangeCall /\ [][NextRange]_vars

HasNA(x) == \E k \in 1..Len(x) : R_IsNA(x[k])

\* 0-based position of the first missing element of x.
FirstNA(x) == CHOOSE k \in 0..(Len(x) - 1) :
                /\ R_IsNA(x[k + 1])
                /\ \A j \in 0..(k - 1) : ~R_IsNA(x[j + 1])

\* C6: with na_rm = FALSE and a missing element anywhere in x, range2,
\* range3 and range3a return (NA, NA), and they return at the first missing
\* element: the scan never moves past it.
C6_ShortCircuit ==
  fn \in RangeFns /\ pc # "entry" /\ ~arg.na_rm /\ HasNA(arg.x) =>
    /\ loc.i <= FirstNA(arg.x)
    /\ pc = "done" => ret = <<NA_REAL, NA_REAL>> /\ loc.i = FirstNA(arg.x)

\* A missing element in the middle of other elements has been returned on.
C6_Witness ==
  /\ fn \in RangeFns /\ pc = "done" /\ ~arg.na_rm
  /\ Len(arg.x) = 3 /\ R_IsNA(arg.x[2]) /\ ~R_IsNA(arg.x[1]) /\ ~R_IsNA(arg.x[3])
  /\ ret = <<NA_REAL, NA_REAL>> /\ loc.i = 1

NonMissingTo(x, k) == {x[j] : j \in {j \in 1..k : ~R_IsNA(x[j])}}

DLe(a, b) == DLt(a, b) \/ DEq(a, b)

\* (min, max) bound and are attained by the non-missing ones of the first k
\* elements, and are (+inf, -inf) when there is none.
IsRangeOf(out, x, k) ==
  LET S == NonMissingTo(x, k)
  IN /\ \A e \in S : DLe(out[1], e) /\ DLe(e, out[2])
     /\ S # {} => out[1] \in S /\ out[2] \in S
     /\ S = {} => out = <<R_PosInf, R_NegInf>>

SkipsMissing == fn = "range" \/ (fn \in RangeFns /\ arg.na_rm)

TabFns == {"tabulate1", "tabulate2"}

INT_MAX == 2147483647
NA_INTEGER == (0 - INT_MAX) - 1

TabKeys == {NA_INTEGER, 0 - 1} \cup 0..(MaxVal + 2)

\* The spec's example: keys 1, 3, 3, 10 with max = 5.
TabExample == [x |-> <<1, 3, 3, 10>>, max |-> 5]

TabInputs == [x : SeqsUpTo(TabKeys, MaxLen), max : 0..(MaxVal + 1)] \cup {TabExample}

\* int pos = x[i] - 1.  For x[i] = NA_INTEGER the subtraction overflows: the
\* machine result wraps to INT_MAX; a build that folds the test into
\* x[i] <= max && x[i] >= 1 rejects the key as well.
TabPos_NoOffset(xi) == xi

TabPos(xi) == IF xi = NA_INTEGER THEN INT_MAX ELSE xi - 1

\* R_IsNA(pos) on an int converted to double: never the missing double.
IntIsNA(pos) == FALSE

\* if (pos < max && pos >= 0 [&& !R_IsNA(pos)])
TabInRange(f, pos, max) ==
  IF f = "tabulate1" THEN pos < max /\ pos >= 0
  ELSE pos < max /\ pos >= 0 /\ ~IntIsNA(pos)

TabulateCall ==
  /\ fn \in TabFns
  /\ arg \in TabInputs
  /\ loc = [counts |-> <<>>, n |-> 0, i |-> 0]
  /\ pc = "entry"
  /\ ret = NoRet

TabulateEntry ==
  /\ fn \in TabFns /\ pc = "entry"
  /\ loc' = [counts |-> [k \in 1..arg.max |-> 0], n |-> Len(arg.x), i |-> 0]
  /\ pc' = "loop"
  /\ UNCHANGED <<fn, arg, ret>>

TabulateLoop ==
  /\ fn \in TabFns /\ pc = "loop"
  /\ loc.i < loc.n
  /\ LET pos == TabPos(arg.x[loc.i + 1])
     IN loc' = IF TabInRange(fn, pos, arg.max)
                 THEN [loc EXCEPT !.counts[pos + 1] = @ + 1, !.i = @ + 1]
                 ELSE [loc EXCEPT !.i = @ + 1]
  /\ UNCHANGED <<fn, arg, pc, ret>>

TabulateReturn ==
  /\ fn \in TabFns /\ pc = "loop"
  /\ ~(loc.i < loc.n)
  /\ ret' = loc.counts
  /\ pc' = "done"
  /\ UNCHANGED <<fn, arg, loc>>

NextTabulate == TabulateEntry \/ TabulateLoop \/ TabulateReturn

SpecTabulate == TabulateCall /\ [][NextTabulate]_vars

\* Number of the first n positions of x that hold key k.
Occurrences(x, n, k) == Cardinality({j \in 1..n : x[j] = k})

RECURSIVE SumSeq(_)
SumSeq(q) == IF q = <<>> THEN 0 ELSE Head(q) + SumSeq(Tail(q))

IsTabulation(counts, x, n, max) ==
  /\ Len(counts) = max
  /\ \A k \in 1..max : counts[k] = Occurrences(x, n, k)
  /\ SumSeq(counts) = Cardinality({j \in 1..n : x[j] >= 1 /\ x[j] <= max})

\* C8: tabulate1 and tabulate2 return exactly max counts, counts[k-1] being
\* the number of positions holding key k; a key outside 1..max (zero,
\* negative, above max or NA_INTEGER) is dropped without error and touches
\* no count, so the counts sum to the number of in-range positions.
C8_Tabulate ==
  fn \in TabFns =>
    /\ pc \in {"entry", "loop", "done"}
    /\ pc = "loop" => IsTabulation(loc.counts, arg.x, loc.i, arg.max)
    /\ pc = "done" => IsTabulation(ret, arg.x, Len(arg.x), arg.max)
    /\ pc = "done" /\ arg = TabExample => ret = <<1, 0, 2, 0, 0>>

\* A result where NA_INTEGER and a key above max were dropped next to a
\* counted key.
C8_Witness ==
  /\ fn \in TabFns /\ pc = "done"
  /\ \E j \in 1..Len(arg.x) : arg.x[j] = NA_INTEGER
  /\ \E j \in 1..Len(arg.x) : arg.x[j] > arg.max
  /\ \E k \in 1..arg.max : ret[k] = 1

(***************************************************************************)
(* tapply2, tapply3, tapply4: src/cpp/tapply.cpp                           *)
(* loc.it is the common 0-based offset of x_it and i_it, loc.groups the    *)
(* group table (a sequence of vectors in tapply2, a map from key to vector *)
(* in tapply3 and tapply4), loc.g the offset of g_it and o_it.             *)
(***************************************************************************)
MapFns == {"tapply3", "tapply4"}
TapFns == {"tapply2"} \cup MapFns

TapVals == 1..MaxVal
TapKeys == {0 - 1, 0} \cup 1..MaxVal \cup {MaxVal + 2}

\* The reductions passed as fun: sum, and one that depends on the order of
\* the group (its elements read as decimal digits).
TapFuns == {"sum", "digits"}

RECURSIVE Digits(_, _)
Digits(acc, v) == IF v = <<>> THEN acc ELSE Digits(10 * acc + Head(v), Tail(v))

\* NumericVector res = fun(group); res[0]
Fun(f, v) == IF f = "sum" THEN SumSeq(v) ELSE Digits(0, v)

\* The spec's example: values 1, 2, 3, 4 with keys 1, 1, 2, 2 and sum.
TapExample == [x |-> <<1, 2, 3, 4>>, i |-> <<1, 1, 2, 2>>, fun |-> "sum"]

\* Value and key sequences of equal length, or differing by one element.
TapInputs ==
  {a \in [x : SeqsUpTo(TapVals, MaxLen), i : SeqsUpTo(TapKeys, MaxLen), fun : TapFuns] :
     Len(a.x) - Len(a.i) \in {0 - 1, 0, 1}} \cup {TapExample}

\* *i_it: the key when in bounds, any int when i_it is past i.end().
KeyDeref(i, it) == IF it < Len(i) THEN {i[it + 1]} ELSE TapKeys

\* groups[k].push_back(v) on the map: operator[] creates an empty vector
\* for a key that is not yet present.
MapPushFront(groups, k, v) ==
  [g \in DOMAIN groups \cup {k} |->
     IF g = k THEN (IF k \in DOMAIN groups THEN <<v>> \o groups[k] ELSE <<v>>)
     ELSE groups[g]]

MapPushBack(groups, k, v) ==
  [g \in DOMAIN groups \cup {k} |->
     IF g = k THEN (IF k \in DOMAIN groups THEN Append(groups[k], v) ELSE <<v>>)
     ELSE groups[g]]

\* groups.resize(n) on the vector of vectors (only ever called to grow).
VecResize(groups, n) ==
  [g \in 1..n |-> IF g <= Len(groups) THEN groups[g] ELSE <<>>]

\* The keys of a map in iteration order (ascending).
RECURSIVE MapKeys(_)
MapKeys(S) ==
  IF S = {} THEN <<>>
  ELSE LET lo == CHOOSE k \in S : \A j \in S : k <= j
       IN <<lo>> \o MapKeys(S \ {lo})

TapplyCall ==
  /\ fn \in TapFns
  /\ arg \in TapInputs
  /\ loc = [groups |-> <<>>, it |-> 0, out |-> <<>>, g |-> 0]
  /\ pc = "entry"
  /\ ret = NoRet

TapplyEntry ==
  /\ fn \in TapFns /\ pc = "entry"
  /\ loc' = [groups |-> <<>>, it |-> 0, out |-> <<>>, g |-> 0]
  /\ pc' = "loop"
  /\ UNCHANGED <<fn, arg, ret>>

\* tapply2, key >= 1: grow the table if needed and append to groups[i - 1].
Tapply2Loop ==
  /\ fn = "tapply2" /\ pc = "loop"
  /\ loc.it # Len(arg.x)
  /\ \E i \in KeyDeref(arg.i, loc.it) :
       /\ i >= 1
       /\ LET grown == IF i > Len(loc.groups) THEN VecResize(loc.groups, i)
                       ELSE loc.groups
          IN loc' = [loc EXCEPT
                       !.groups = [grown EXCEPT ![i] = Append(@, arg.x[loc.it + 1])],
                       !.it = @ + 1]
  /\ UNCHANGED <<fn, arg, pc, ret>>

\* tapply2, key < 0: in i > groups.size() the key is converted to an
\* unsigned size, so the test is true and groups.resize is asked for more
\* than max_size() elements: std::length_error, reported as an R error.
Tapply2Negative ==
  /\ fn = "tapply2" /\ pc = "loop"
  /\ loc.it # Len(arg.x)
  /\ \E i \in KeyDeref(arg.i, loc.it) : i < 0
  /\ pc' = "error"
  /\ UNCHANGED <<fn, arg, loc, ret>>

\* tapply2, key = 0: 0 > groups.size() is false and groups[-1] is outside the
\* table.  The push_back lands in memory before the table: the call faults,
\* or goes on with the element in no group.
Tapply2Zero ==
  /\ fn = "tapply2" /\ pc = "loop"
  /\ loc.it # Len(arg.x)
  /\ \E i \in KeyDeref(arg.i, loc.it) : i = 0
  /\ \/ pc' = "crashed" /\ loc' = loc
     \/ pc' = pc /\ loc' = [loc EXCEPT !.it = @ + 1]
  /\ UNCHANGED <<fn, arg, ret>>

Tapply3Loop ==
  /\ fn \in MapFns /\ pc = "loop"
  /\ loc.it # Len(arg.x)
  /\ \E i \in KeyDeref(arg.i, loc.it) :
       loc' = [loc EXCEPT
                 !.groups = MapPushBack(loc.groups, i, arg.x[loc.it + 1]),
                 !.it = @ + 1]
  /\ UNCHANGED <<fn, arg, pc, ret>>

\* The read of *i_it past i.end() faults.
TapplyKeyFault ==
  /\ fn \in TapFns /\ pc = "loop"
  /\ loc.it # Len(arg.x)
  /\ ~(loc.it < Len(arg.i))
  /\ pc' = "crashed"
  /\ UNCHANGED <<fn, arg, loc, ret>>

\* NumericVector out(groups.size())
TapplyAlloc ==
  /\ fn \in TapFns /\ pc = "loop"
  /\ loc.it = Len(arg.x)
  /\ LET size == IF fn = "tapply2" THEN Len(loc.groups)
                 ELSE Cardinality(DOMAIN loc.groups)
     IN loc' = [loc EXCEPT !.out = [k \in 1..size |-> 0], !.g = 0]
  /\ pc' = "reduce"
  /\ UNCHANGED <<fn, arg, ret>>

TapplyReduce ==
  /\ fn \in TapFns /\ pc = "reduce"
  /\ loc.g # Len(loc.out)
  /\ LET group == IF fn = "tapply2" THEN loc.groups[loc.g + 1]
                  ELSE loc.groups[MapKeys(DOMAIN loc.groups)[loc.g + 1]]
     IN loc' = [loc EXCEPT !.out[loc.g + 1] = Fun(arg.fun, group), !.g = @ + 1]
  /\ UNCHANGED <<fn, arg, pc, ret>>

TapplyReturn ==
  /\ fn \in TapFns /\ pc = "reduce"
  /\ loc.g = Len(loc.out)
  /\ ret' = loc.out
  /\ pc' = "done"
  /\ UNCHANGED <<fn, arg, loc>>

NextTapply ==
  \/ TapplyEntry \/ Tapply2Loop \/ Tapply2Negative \/ Tapply2Zero
  \/ Tapply3Loop \/ TapplyKeyFault \/ TapplyAlloc \/ TapplyReduce
  \/ TapplyReturn

SpecTapply == TapplyCall /\ [][NextTapply]_vars

\* The values of x at the positions where i holds key g, in original order.
RECURSIVE GroupOf(_, _, _)
GroupOf(x, i, g) ==
  IF x = <<>> THEN <<>>
  ELSE (IF Head(i) = g THEN <<Head(x)>> ELSE <<>>) \o GroupOf(Tail(x), Tail(i), g)

KeySet(i) == {i[k] : k \in 1..Len(i)}

\* C9: for x and i of the same length tapply3 and tapply4 return one value
\* per distinct key of i, in ascending key order, the value for key g being
\* fun applied to the elements of x at the positions where i = g, in their
\* original order (values 1,2,3,4 with keys 1,1,2,2 and sum give 3, 7).
C9_GroupReduce ==
  fn \in MapFns /\ Len(arg.x) = Len(arg.i) =>
    /\ pc \in {"entry", "loop", "reduce", "done"}
    /\ pc = "done" =>
         LET keys == MapKeys(KeySet(arg.i))
         IN /\ Len(ret) = Cardinality(KeySet(arg.i))
            /\ \A j \in 1..Len(ret) :
                 ret[j] = Fun(arg.fun, GroupOf(arg.x, arg.i, keys[j]))
            /\ arg = TapExample => ret = <<3, 7>>

\* An order-sensitive reduction over interleaved groups whose keys appear
\* in descending order in i.
C9_Witness ==
  /\ fn \in MapFns /\ pc = "done" /\ arg.fun = "digits"
  /\ Len(arg.x) = 3 /\ Len(arg.i) = 3
  /\ arg.i[1] = arg.i[3] /\ arg.i[2] < arg.i[1]
  /\ arg.x[1] # arg.x[3]
  /\ Len(ret) = 2 /\ ret[2] = 10 * arg.x[1] + arg.x[3]

\* C10: when the key sequence and the value sequence differ in length, the
\* call fails with an error: it returns no result, reads no key past the end
\* of the key sequence and does not end abnormally.
C10_LengthMismatchFails ==
  fn \in TapFns /\ Len(arg.x) # Len(arg.i) =>
    /\ pc \notin {"done", "crashed"}
    /\ pc \in {"loop", "reduce"} => loc.it <= Len(arg.i)

(***************************************************************************)
(* set: src/cpp/set.cpp                                                    *)
(* NumericVector out(x) wraps the same R vector as x (the copy constructor *)
(* does not duplicate the data), so arg.x is the storage of both x and     *)
(* out, and it is the caller's vector.                                     *)
(***************************************************************************)
RECURSIVE InsertSorted(_, _)
InsertSorted(q, v) ==
  IF q = <<>> THEN <<v>>
  ELSE IF DLt(v, Head(q)) THEN <<v>> \o q
  ELSE <<Head(q)>> \o InsertSorted(Tail(q), v)

\* std::sort(first, last) on finite doubles: the elements in ascending order.
RECURSIVE sort(_)
sort(q) == IF q = <<>> THEN <<>> ELSE InsertSorted(sort(Tail(q)), Head(q))

\* std::unique(first, last): each element that differs from the last kept
\* one is moved up next to it; the elements behind the returned position
\* keep what they held.  The result is the storage and the offset returned.
RECURSIVE UniqueScan(_, _, _)
UniqueScan(q, dest, first) ==
  IF first > Len(q) THEN [q |-> q, end |-> dest]
  ELSE IF ~DEq(q[dest], q[first])
    THEN UniqueScan([q EXCEPT ![dest + 1] = q[first]], dest + 1, first + 1)
    ELSE UniqueScan(q, dest, first + 1)

unique(q) == IF q = <<>> THEN [q |-> q, end |-> 0] ELSE UniqueScan(q, 1, 2)

SetCall ==
  /\ fn = "set"
  /\ arg \in [x : SeqsUpTo(FiniteVals, MaxLen)]
  /\ loc = [out |-> "none", unique |-> 0]
  /\ pc = "entry"
  /\ ret = NoRet

\* NumericVector out(x);
SetEntry ==
  /\ fn = "set" /\ pc = "entry"
  /\ loc' = [loc EXCEPT !.out = "x"]
  /\ pc' = "sort"
  /\ UNCHANGED <<fn, arg, ret>>

\* std::sort(out.begin(), out.end());
SetSort ==
  /\ fn = "set" /\ pc = "sort"
  /\ arg' = [arg EXCEPT !.x = sort(@)]
  /\ pc' = "unique"
  /\ UNCHANGED <<fn, loc, ret>>

\* NumericVector::iterator unique = std::unique(x.begin(), x.end());
SetUnique ==
  /\ fn = "set" /\ pc = "unique"
  /\ arg' = [arg EXCEPT !.x = unique(@).q]
  /\ loc' = [loc EXCEPT !.unique = unique(arg.x).end]
  /\ pc' = "return"
  /\ UNCHANGED <<fn, ret>>

\* return(out);
SetReturn ==
  /\ fn = "set" /\ pc = "return"
  /\ ret' = arg.x
  /\ pc' = "done"
  /\ UNCHANGED <<fn, arg, loc>>

NextSet == SetEntry \/ SetSort \/ SetUnique \/ SetReturn

SpecSet == SetCall /\ [][NextSet]_vars

\* C11: no operation modifies its input: no step of any call, set included,
\* changes the caller's argument vectors.
C11_InputsUnchanged == [][arg' = arg]_vars

\* The same for every function other than set.
InputsUnchangedExceptSet == [][fn # "set" => arg' = arg]_vars

(***************************************************************************)
(* in1, in2, in3: src/cpp/in.cpp                                           *)
(* loc.set is the unordered_set<double> as the sequence of its entries:    *)
(* an insertion adds an entry unless an entry compares equal (==) to the   *)
(* value, so a missing value, which equals nothing, is added every time.   *)
(***************************************************************************)
InFns == {"in1", "in2", "in3"}

InVals == FiniteVals \cup {NA_REAL}

\* set.count(v): the number of entries equal to v.
HashCount(set, v) == Cardinality({k \in 1..Len(set) : DEq(set[k], v)})

\* set.insert(v)
HashInsert(set, v) == IF HashCount(set, v) > 0 THEN set ELSE Append(set, v)

\* The value stored in out for one query value.
InTest(f, set, v) ==
  IF f = "in1" THEN HashCount(set, v) = 1
  ELSE IF f = "in2" THEN HashCount(set, v) # 0
  ELSE \E k \in 1..Len(set) : DEq(set[k], v)

InCall ==
  /\ fn \in InFns
  /\ arg \in [x : SeqsUpTo(InVals, MaxLen), table : SeqsUpTo(InVals, MaxLen)]
  /\ loc = [set |-> <<>>, t |-> 0, out |-> <<>>, it |-> 0]
  /\ pc = "entry"
  /\ ret = NoRet

InEntry ==
  /\ fn \in InFns /\ pc = "entry"
  /\ loc' = [set |-> <<>>, t |-> 0, out |-> <<>>, it |-> 0]
  /\ pc' = "build"
  /\ UNCHANGED <<fn, arg, ret>>

\* The insertion loop of in1, and the range constructor of in2 and in3.
InBuild ==
  /\ fn \in InFns /\ pc = "build"
  /\ loc.t # Len(arg.table)
  /\ loc' = [loc EXCEPT !.set = HashInsert(@, arg.table[loc.t + 1]), !.t = @ + 1]
  /\ UNCHANGED <<fn, arg, pc, ret>>

\* LogicalVector out(x.size());
InAlloc ==
  /\ fn \in InFns /\ pc = "build"
  /\ loc.t = Len(arg.table)
  /\ loc' = [loc EXCEPT !.out = [k \in 1..Len(arg.x) |-> FALSE], !.it = 0]
  /\ pc' = "loop"
  /\ UNCHANGED <<fn, arg, ret>>

InLoop ==
  /\ fn \in InFns /\ pc = "loop"
  /\ loc.it # Len(arg.x)
  /\ loc' = [loc EXCEPT !.out[loc.it + 1] = InTest(fn, loc.set, arg.x[loc.it + 1]),
                        !.it = @ + 1]
  /\ UNCHANGED <<fn, arg, pc, ret>>

InReturn ==
  /\ fn \in InFns /\ pc = "loop"
  /\ loc.it = Len(arg.x)
  /\ ret' = loc.out
  /\ pc' = "done"
  /\ UNCHANGED <<fn, arg, loc>>

NextIn == InEntry \/ InBuild \/ InAlloc \/ InLoop \/ InReturn

SpecIn == InCall /\ [][NextIn]_vars

\* x %in% table: a value is in the table when the table holds it; a missing
\* value is in a table that holds a missing value.
BuiltinIn(v, table) == \E k \in 1..Len(table) : table[k] = v

\* C12: in1, in2 and in3 return a vector of length |x| whose k-th entry is
\* TRUE exactly when x[k] is an element of table, as the built-in
\* membership test does, whatever the table (repeated values, empty).
C12_Membership ==
  fn \in InFns /\ pc = "done" =>
    /\ Len(ret) = Len(arg.x)
    /\ \A k \in 1..Len(arg.x) : ret[k] = BuiltinIn(arg.x[k], arg.table)

\* The same for query values that are not missing.
InNonMissing ==
  fn \in InFns /\ pc = "done" =>
    /\ Len(ret) = Len(arg.x)
    /\ \A k \in 1..Len(arg.x) :
         ~R_IsNA(arg.x[k]) => ret[k] = BuiltinIn(arg.x[k], arg.table)

(***************************************************************************)
(* order1, order2, order3, order4: src/extras/cpp/order.cpp                *)
(* loc.vals is the vector of pairs (order1), the map from value to index   *)
(* (order2) or the vector of indices (order3, order4).                     *)
(***************************************************************************)
OrderFns == {"order1", "order2", "order3", "order4"}

\* operator< of std::pair<double, int>
PairLt(a, b) == DLt(a[1], b[1]) \/ (~DLt(b[1], a[1]) /\ a[2] < b[2])

RECURSIVE InsertPair(_, _)
InsertPair(q, p) ==
  IF q = <<>> THEN <<p>>
  ELSE IF PairLt(p, Head(q)) THEN <<p>> \o q
  ELSE <<Head(q)>> \o InsertPair(Tail(q), p)

\* std::sort on the vector of pairs: no two pairs are equivalent, so the
\* result is the one ascending arrangement.
RECURSIVE SortPairs(_)
SortPairs(q) == IF q = <<>> THEN <<>> ELSE InsertPair(SortPairs(Tail(q)), Head(q))

\* Sorter::operator(): compares the values the 1-based indices refer to.
Sorter(x, i, j) == DLt(x[i], x[j])

Arrangements(n) == {p \in [1..n -> 1..n] : \A a, b \in 1..n : a # b => p[a] # p[b]}

\* std::sort with Sorter: some arrangement of the indices in which no index
\* comes before one that Sorter puts ahead of it (equivalent indices may
\* come out in any order).
SortedBySorter(x, vals) ==
  {p \in Arrangements(Len(vals)) :
     \A a, b \in 1..Len(vals) : a < b => ~Sorter(x, p[b], p[a])}

\* vals[key] = i on std::map<double, int>: the entry of an equal key is
\* overwritten.  The map is kept as its entries in ascending key order.
RECURSIVE MapAssign(_, _, _)
MapAssign(vals, key, i) ==
  IF vals = <<>> THEN <<<<key, i>>>>
  ELSE IF DLt(key, Head(vals)[1]) THEN <<<<key, i>>>> \o vals
  ELSE IF DLt(Head(vals)[1], key) THEN <<Head(vals)>> \o MapAssign(Tail(vals), key, i)
  ELSE <<<<key, i>>>> \o Tail(vals)

OrderCall ==
  /\ fn \in OrderFns
  /\ arg \in [x : SeqsUpTo(FiniteVals, MaxLen)]
  /\ loc = [n |-> 0, vals |-> <<>>, i |-> 0, out |-> <<>>, it |-> 0]
  /\ pc = "entry"
  /\ ret = NoRet

OrderEntry ==
  /\ fn \in OrderFns /\ pc = "entry"
  /\ loc' = [n |-> Len(arg.x), vals |-> <<>>, i |-> 0, out |-> <<>>, it |-> 0]
  /\ pc' = "fill"
  /\ UNCHANGED <<fn, arg, ret>>

\* The first loop: (x[i], i + 1) in order1, vals[x[i]] = i in order2,
\* i + 1 in order3 and order4.
OrderFill ==
  /\ fn \in OrderFns /\ pc = "fill"
  /\ loc.i < loc.n
  /\ loc' = [loc EXCEPT
               !.vals = IF fn = "order1" THEN Append(@, <<arg.x[loc.i + 1], loc.i + 1>>)
                        ELSE IF fn = "order2" THEN MapAssign(@, arg.x[loc.i + 1], loc.i)
                        ELSE Append(@, loc.i + 1),
               !.i = @ + 1]
  /\ UNCHANGED <<fn, arg, pc, ret>>

\* order1: std::sort(vals.begin(), vals.end()); IntegerVector out(n);
Order1Sort ==
  /\ fn = "order1" /\ pc = "fill"
  /\ ~(loc.i < loc.n)
  /\ loc' = [loc EXCEPT !.vals = SortPairs(@), !.out = [k \in 1..loc.n |-> 0], !.it = 0]
  /\ pc' = "copy"
  /\ UNCHANGED <<fn, arg, ret>>

\* order2: IntegerVector out(n); it = vals.begin();
Order2Alloc ==
  /\ fn = "order2" /\ pc = "fill"
  /\ ~(loc.i < loc.n)
  /\ loc' = [loc EXCEPT !.out = [k \in 1..loc.n |-> 0], !.it = 0]
  /\ pc' = "copy"
  /\ UNCHANGED <<fn, arg, ret>>

\* The second loop of order1 (over 0..n-1) and of order2 (over the map).
OrderCopy ==
  /\ fn \in {"order1", "order2"} /\ pc = "copy"
  /\ loc.it # Len(loc.vals)
  /\ loc' = [loc EXCEPT
               !.out[loc.it + 1] = IF fn = "order1" THEN loc.vals[loc.it + 1][2]
                                   ELSE loc.vals[loc.it + 1][2] + 1,
               !.it = @ + 1]
  /\ UNCHANGED <<fn, arg, pc, ret>>

OrderCopyReturn ==
  /\ fn \in {"order1", "order2"} /\ pc = "copy"
  /\ loc.it = Len(loc.vals)
  /\ ret' = loc.out
  /\ pc' = "done"
  /\ UNCHANGED <<fn, arg, loc>>

\* order3, order4: std::sort(vals.begin(), vals.end(), Sorter(x)); return vals;
Order3Sort ==
  /\ fn \in {"order3", "order4"} /\ pc = "fill"
  /\ ~(loc.i < loc.n)
  /\ \E p \in SortedBySorter(arg.x, loc.vals) :
       /\ loc' = [loc EXCEPT !.vals = [k \in 1..loc.n |-> loc.vals[p[k]]]]
       /\ ret' = [k \in 1..loc.n |-> loc.vals[p[k]]]
  /\ pc' = "done"
  /\ UNCHANGED <<fn, arg>>

NextOrder ==
  \/ OrderEntry \/ OrderFill \/ Order1Sort \/ Order2Alloc \/ OrderCopy
  \/ OrderCopyReturn \/ Order3Sort

SpecOrder == OrderCall /\ [][NextOrder]_vars

IsOrdering(out, x) ==
  /\ Len(out) = Len(x)
  /\ \A k \in 1..Len(x) : \E j \in 1..Len(out) : out[j] = k
  /\ \A k \in 1..(Len(x) - 1) : ~DLt(x[out[k + 1]], x[out[k]])

\* C13: for every x, repeated values included, each of order1..order4
\* returns a permutation of 1..n (length n, every index once) that
\* arranges x in non-decreasing order.
C13_Order ==
  fn \in OrderFns /\ pc = "done" => IsOrdering(ret, arg.x)

\* The same for the variants other than order2.
OrderExceptOrder2 ==
  fn \in OrderFns \ {"order2"} /\ pc = "done" => IsOrdering(ret, arg.x)

\* order2 on inputs without repeated values.
Order2Distinct ==
  /\ fn = "order2" /\ pc = "done"
  /\ \A a, b \in 1..Len(arg.x) : a # b => arg.x[a] # arg.x[b]
  => IsOrdering(ret, arg.x)

(***************************************************************************)
(* pmin1, pmin2, pmin3: src/cpp/pmin.cpp                                   *)
(* loc.oob records whether an element outside x or y has been read.        *)
(***************************************************************************)
PminFns == {"pmin1", "pmin2", "pmin3"}

Max(a, b) == IF a < b THEN b ELSE a

\* rep_len(v, n): element k is v[k % v.size()].
rep_len(v, n) == [k \in 1..n |-> v[((k - 1) % Len(v)) + 1]]

\* std::min(a, b): b when b < a, otherwise a.
StdMin(a, b) == IF DLt(b, a) THEN b ELSE a

\* The value stored in the output for the pair (a, b).
PminOf(f, a, b) ==
  IF f = "pmin2" THEN (IF DLt(a, b) THEN a ELSE b) ELSE StdMin(a, b)

\* v[i] without a bounds check: the element, or any double past the end.
VecDeref(v, i) == IF i < Len(v) THEN {v[i + 1]} ELSE InVals

PminCall ==
  /\ fn \in PminFns
  /\ arg \in [x : SeqsUpTo(InVals, MaxLen), y : SeqsUpTo(InVals, MaxLen)]
  /\ loc = [n |-> 0, x1 |-> <<>>, y1 |-> <<>>, out |-> <<>>, i |-> 0, oob |-> FALSE]
  /\ pc = "entry"
  /\ ret = NoRet

\* int n = std::max(x.size(), y.size());
PminEntry ==
  /\ fn \in PminFns /\ pc = "entry"
  /\ loc' = [loc EXCEPT !.n = Max(Len(arg.x), Len(arg.y))]
  /\ pc' = "rep"
  /\ UNCHANGED <<fn, arg, ret>>

\* x1 = rep_len(x, n); y1 = rep_len(y, n); NumericVector out(n);
PminRep ==
  /\ fn \in PminFns /\ pc = "rep"
  /\ (Len(arg.x) > 0 /\ Len(arg.y) > 0) \/ loc.n = 0
  /\ loc' = [loc EXCEPT !.x1 = rep_len(arg.x, loc.n), !.y1 = rep_len(arg.y, loc.n),
                        !.out = [k \in 1..loc.n |-> D(0)], !.i = 0]
  /\ pc' = "loop"
  /\ UNCHANGED <<fn, arg, ret>>

\* rep_len of an empty vector to a positive length divides by zero in
\* i % 0: the division traps, or (where it does not trap) yields an index
\* into the empty vector, whose read gives any double.
PminRepEmpty ==
  /\ fn \in PminFns /\ pc = "rep"
  /\ (Len(arg.x) = 0 \/ Len(arg.y) = 0) /\ loc.n > 0
  /\ \/ pc' = "crashed" /\ loc' = loc
     \/ /\ pc' = "loop"
        /\ \E g \in InVals :
             loc' = [loc EXCEPT
                       !.x1 = IF Len(arg.x) = 0 THEN [k \in 1..loc.n |-> g]
                              ELSE rep_len(arg.x, loc.n),
                       !.y1 = IF Len(arg.y) = 0 THEN [k \in 1..loc.n |-> g]
                              ELSE rep_len(arg.y, loc.n),
                       !.out = [k \in 1..loc.n |-> D(0)], !.i = 0, !.oob = TRUE]
  /\ UNCHANGED <<fn, arg, ret>>

\* The loop runs over 0..n-1 in pmin1 and pmin2, over x in pmin3; it reads
\* x and y, never x1 and y1.
PminLoop ==
  /\ fn \in PminFns /\ pc = "loop"
  /\ loc.i # (IF fn = "pmin3" THEN Len(arg.x) ELSE loc.n)
  /\ \E a \in VecDeref(arg.x, loc.i), b \in VecDeref(arg.y, loc.i) :
       loc' = [loc EXCEPT
                 !.out[loc.i + 1] = PminOf(fn, a, b),
                 !.i = @ + 1,
                 !.oob = @ \/ ~(loc.i < Len(arg.x)) \/ ~(loc.i < Len(arg.y))]
  /\ UNCHANGED <<fn, arg, pc, ret>>

\* The read past the end of the shorter vector faults.
PminFault ==
  /\ fn \in PminFns /\ pc = "loop"
  /\ loc.i # (IF fn = "pmin3" THEN Len(arg.x) ELSE loc.n)
  /\ (~(loc.i < Len(arg.x)) \/ ~(loc.i < Len(arg.y)))
  /\ pc' = "crashed"
  /\ UNCHANGED <<fn, arg, loc, ret>>

PminReturn ==
  /\ fn \in PminFns /\ pc = "loop"
  /\ loc.i = (IF fn = "pmin3" THEN Len(arg.x) ELSE loc.n)
  /\ ret' = loc.out
  /\ pc' = "done"
  /\ UNCHANGED <<fn, arg, loc>>

NextPmin ==
  PminEntry \/ PminRep \/ PminRepEmpty \/ PminLoop \/ PminFault \/ PminReturn

SpecPmin == PminCall /\ [][NextPmin]_vars

\* pmin(a, b) of the built-in: missing when either is, else the smaller.
BuiltinMin(a, b) ==
  IF R_IsNA(a) \/ R_IsNA(b) THEN NA_REAL ELSE IF DLt(b, a) THEN b ELSE a

\* C14: pmin1, pmin2 and pmin3 return a vector of length n = max(|x|, |y|)
\* whose i-th element is the smaller of the i-th elements of x and y after
\* the shorter one is recycled to length n; no element outside x or y is
\* read and every output slot is written.
C14_Pmin ==
  fn \in PminFns =>
    /\ pc # "crashed"
    /\ ~loc.oob
    /\ pc = "done" =>
         /\ Len(ret) = Max(Len(arg.x), Len(arg.y))
         /\ loc.i = Len(ret)
         /\ (Len(arg.x) > 0 /\ Len(arg.y) > 0) =>
              \A k \in 1..Len(ret) :
                ret[k] = BuiltinMin(rep_len(arg.x, Len(ret))[k], rep_len(arg.y, Len(ret))[k])

\* The same for x and y of equal length without missing values.
PminEqualLength ==
  /\ fn \in PminFns /\ Len(arg.x) = Len(arg.y)
  /\ \A k \in 1..Len(arg.x) : ~R_IsNA(arg.x[k]) /\ ~R_IsNA(arg.y[k])
  => /\ pc # "crashed"
     /\ ~loc.oob
     /\ pc = "done" =>
          /\ Len(ret) = Len(arg.x)
          /\ \A k \in 1..Len(ret) : ret[k] = BuiltinMin(arg.x[k], arg.y[k])

(***************************************************************************)
(* diff2: src/cpp/diff.cpp; diff_cpp: src/extras/cpp/diff.cpp              *)
(***************************************************************************)
DiffFns == {"diff2", "diff_cpp"}

DiffCall ==
  /\ fn \in DiffFns
  /\ arg \in [x : SeqsUpTo(VarVals, MaxLen), lag : 1..(MaxLen + 1)]
  /\ loc = [n |-> 0, y |-> <<>>, i |-> 0]
  /\ pc = "entry"
  /\ ret = NoRet

\* int n = x.length(); NumericVector y(n - lag); i = lag
DiffEntry ==
  /\ fn \in DiffFns /\ pc = "entry"
  /\ Len(arg.x) - arg.lag >= 0
  /\ loc' = [n |-> Len(arg.x), y |-> [k \in 1..(Len(arg.x) - arg.lag) |-> 0],
             i |-> arg.lag]
  /\ pc' = "loop"
  /\ UNCHANGED <<fn, arg, ret>>

\* NumericVector y(n - lag) with n < lag: the allocation of a vector of
\* negative length is refused with an R error.
DiffNegativeLength ==
  /\ fn \in DiffFns /\ pc = "entry"
  /\ Len(arg.x) - arg.lag < 0
  /\ loc' = [loc EXCEPT !.n = Len(arg.x)]
  /\ pc' = "error"
  /\ UNCHANGED <<fn, arg, ret>>

DiffLoop ==
  /\ fn \in DiffFns /\ pc = "loop"
  /\ loc.i < loc.n
  /\ loc' = [loc EXCEPT
               !.y[loc.i - arg.lag + 1] = arg.x[loc.i + 1] - arg.x[loc.i - arg.lag + 1],
               !.i = @ + 1]
  /\ UNCHANGED <<fn, arg, pc, ret>>

DiffReturn ==
  /\ fn \in DiffFns /\ pc = "loop"
  /\ ~(loc.i < loc.n)
  /\ ret' = loc.y
  /\ pc' = "done"
  /\ UNCHANGED <<fn, arg, loc>>

NextDiff == DiffEntry \/ DiffNegativeLength \/ DiffLoop \/ DiffReturn

SpecDiff == DiffCall /\ [][NextDiff]_vars

\* C15: for lag >= 1 the result has length n - lag with y[j] = x[j + lag] -
\* x[j], and is the empty sequence when n <= lag (empty x included); no
\* result of negative length is ever asked for.
C15_Diff ==
  fn \in DiffFns =>
    /\ pc # "error"
    /\ pc = "done" =>
         /\ Len(ret) = (IF Len(arg.x) <= arg.lag THEN 0 ELSE Len(arg.x) - arg.lag)
         /\ \A j \in 1..Len(ret) : ret[j] = arg.x[j + arg.lag] - arg.x[j]

\* The same for n >= lag.
DiffLongEnough ==
  fn \in DiffFns /\ Len(arg.x) >= arg.lag =>
    /\ pc # "error"
    /\ pc = "done" =>
         /\ Len(ret) = Len(arg.x) - arg.lag
         /\ \A j \in 1..Len(ret) : ret[j] = arg.x[j + arg.lag] - arg.x[j]

(***************************************************************************)
(* match1: src/cpp/match.cpp; match3: src/extras/cpp/match.cpp             *)
(* loc.lookup is the unordered_map from string to int.                     *)
(***************************************************************************)
MatchFns == {"match1", "match3"}

StrVals == {"a", "b", "c"}

\* lookup[key] = v
MapPut(lookup, key, v) ==
  [k \in DOMAIN lookup \cup {key} |-> IF k = key THEN v ELSE lookup[k]]

\* lookup[key] as an rvalue: a key that is not present is inserted with the
\* value 0.  The result is the map afterwards and the value read.
MapGet(lookup, key) ==
  IF key \in DOMAIN lookup THEN [map |-> lookup, val |-> lookup[key]]
  ELSE [map |-> MapPut(lookup, key, 0), val |-> 0]

MatchCall ==
  /\ fn \in MatchFns
  /\ arg \in [x : SeqsUpTo(StrVals, MaxLen), table : SeqsUpTo(StrVals, MaxLen)]
  /\ loc = [lookup |-> <<>>, n |-> 0, i |-> 0, m |-> 0, out |-> <<>>, j |-> 0]
  /\ pc = "entry"
  /\ ret = NoRet

MatchEntry ==
  /\ fn \in MatchFns /\ pc = "entry"
  /\ loc' = [loc EXCEPT !.lookup = <<>>, !.n = Len(arg.table), !.i = 0]
  /\ pc' = "build"
  /\ UNCHANGED <<fn, arg, ret>>

\* match1: lookup[name] = i + 1;  match3: lookup[table[i]] = i;
MatchBuild ==
  /\ fn \in MatchFns /\ pc = "build"
  /\ loc.i < loc.n
  /\ loc' = [loc EXCEPT
               !.lookup = MapPut(@, arg.table[loc.i + 1],
                                 IF fn = "match1" THEN loc.i + 1 ELSE loc.i),
               !.i = @ + 1]
  /\ UNCHANGED <<fn, arg, pc, ret>>

\* int m = x.length(); IntegerVector out(m);
MatchAlloc ==
  /\ fn \in MatchFns /\ pc = "build"
  /\ ~(loc.i < loc.n)
  /\ loc' = [loc EXCEPT !.m = Len(arg.x), !.out = [k \in 1..Len(arg.x) |-> 0], !.j = 0]
  /\ pc' = "loop"
  /\ UNCHANGED <<fn, arg, ret>>

\* match1: out[j] = lookup[name];  match3: out[i] = lookup[x[i]] + 1;
MatchLoop ==
  /\ fn \in MatchFns /\ pc = "loop"
  /\ loc.j < loc.m
  /\ LET r == MapGet(loc.lookup, arg.x[loc.j + 1])
     IN loc' = [loc EXCEPT
                  !.lookup = r.map,
                  !.out[loc.j + 1] = IF fn = "match1" THEN r.val ELSE r.val + 1,
                  !.j = @ + 1]
  /\ UNCHANGED <<fn, arg, pc, ret>>

MatchReturn ==
  /\ fn \in MatchFns /\ pc = "loop"
  /\ ~(loc.j < loc.m)
  /\ ret' = loc.out
  /\ pc' = "done"
  /\ UNCHANGED <<fn, arg, loc>>

NextMatch == MatchEntry \/ MatchBuild \/ MatchAlloc \/ MatchLoop \/ MatchReturn

SpecMatch == MatchCall /\ [][NextMatch]_vars

Occurs(v, table) == \E p \in 1..Len(table) : table[p] = v

IsMatch(out, x, table) ==
  /\ Len(out) = Len(x)
  /\ \A j \in 1..Len(x) :
       IF Occurs(x[j], table)
         THEN out[j] \in 1..Len(table) /\ table[out[j]] = x[j]
         ELSE out[j] \notin 1..Len(table)

\* C16: match1 and match3 return for each x[j] that occurs in table a
\* 1-based position p with table[p] = x[j], and for each x[j] that does not
\* occur a value that is no position of table; the lookup of an absent key
\* changes no other element's result.
C16_Match ==
  fn \in MatchFns /\ pc = "done" => IsMatch(ret, arg.x, arg.table)

\* The same for match1 alone.
Match1Correct ==
  fn = "match1" /\ pc = "done" => IsMatch(ret, arg.x, arg.table)

\* match3 on queries that all occur in the table.
Match3Hits ==
  /\ fn = "match3" /\ pc = "done"
  /\ \A j \in 1..Len(arg.x) : Occurs(arg.x[j], arg.table)
  => IsMatch(ret, arg.x, arg.table)

(***************************************************************************)
(* tapply2 against tapply3 (src/cpp/tapply.cpp): the value tapply3 returns *)
(* for x and i of the same length, as one expression.                      *)
(***************************************************************************)
\* The group table of tapply3 after its first loop.
RECURSIVE Tapply3Groups(_, _, _)
Tapply3Groups(groups, x, i) ==
  IF x = <<>> THEN groups
  ELSE Tapply3Groups(MapPushBack(groups, Head(i), Head(x)), Tail(x), Tail(i))

\* The output of tapply3 after its second loop.
Tapply3Result(x, i, f) ==
  LET groups == Tapply3Groups(<<>>, x, i)
      keys == MapKeys(DOMAIN groups)
  IN [k \in 1..Len(keys) |-> Fun(f, groups[keys[k]])]

\* The keys tapply2 has taken from i so far.
KeysTaken == {arg.i[k] : k \in 1..(IF loc.it < Len(arg.i) THEN loc.it ELSE Len(arg.i))}

\* C17: for x and i of the same length with all keys >= 1, tapply2 returns
\* what tapply3 returns, also when the keys are not contiguous from 1; and
\* whatever the keys (0 and negative included), tapply2 indexes groups only
\* inside 0..groups.size()-1.
C17_Tapply2AsTapply3 ==
  fn = "tapply2" /\ Len(arg.x) = Len(arg.i) =>
    /\ pc # "crashed"
    /\ pc \in {"loop", "reduce", "done"} =>
         \A key \in KeysTaken : key - 1 >= 0 /\ key - 1 <= Len(loc.groups) - 1
    /\ (pc = "done" /\ \A k \in 1..Len(arg.i) : arg.i[k] >= 1) =>
         ret = Tapply3Result(arg.x, arg.i, arg.fun)

\* tapply2 on keys that are exactly 1..m for some m.
Tapply2Dense ==
  /\ fn = "tapply2" /\ Len(arg.x) = Len(arg.i)
  /\ \E m \in 0..Len(arg.i) : KeySet(arg.i) = 1..m
  => /\ pc \notin {"crashed", "error"}
     /\ pc = "done" => ret = Tapply3Result(arg.x, arg.i, arg.fun)

\* Tapply3Result is what the tapply3 loops return.
Tapply3ResultIsReturned ==
  fn = "tapply3" /\ Len(arg.x) = Len(arg.i) /\ pc = "done" =>
    ret = Tapply3Result(arg.x, arg.i, arg.fun)

(***************************************************************************)
(* Any one call of any of the functions above.                             *)
(***************************************************************************)
Init ==
  \/ RleCall \/ DuplicatedCall \/ FindIntervalCall \/ VarCall
  \/ RangeCall \/ TabulateCall \/ TapplyCall
  \/ SetCall \/ InCall \/ OrderCall \/ PminCall \/ DiffCall \/ MatchCall

Next ==
  \/ NextRle \/ NextDuplicated \/ NextFindInterval \/ NextVar
  \/ NextRange \/ NextTabulate \/ NextTapply
  \/ NextSet \/ NextIn \/ NextOrder \/ NextPmin \/ NextDiff \/ NextMatch

Spec == Init /\ [][Next]_vars

====
